---- MODULE Spec2Model ----
(***************************************************************************)
(* Zenhydratation: daily-history ledger, streak calculator, timer /        *)
(* rollover state machine and load-time reconciliation.                    *)
(*                                                                         *)
(* The web component (src/src/ZenhydratationApp.jsx) is modelled with the  *)
(* granularity of one JavaScript task per action: an event handler or      *)
(* timer callback, the re-render it causes and the effects that re-render  *)
(* triggers (the upsert-today effect in particular) form one step.         *)
(* The native ledger helper (src/src/lib/history.js) is modelled next to   *)
(* the web upsert so that both can be exercised on the same ledgers.       *)
(***************************************************************************)
EXTENDS Integers, Sequences, FiniteSets, TLC

(***************************************************************************)
(* Bounds of the model (not program constants).                            *)
(***************************************************************************)
\* last calendar day (day number) the clock of the component may reach
MaxDay == 3
\* number of times the clock of the component may change its day
MaxClockChanges == 2
\* number of one-second ticks of the main timers
MaxTicks == 2
\* number of glasses the user may add
MaxWater == 1
\* number of changes the user may make in the settings panel
MaxSettings == 1
\* number of calendar days the ledger harness draws its records from
LedgerDays == 3
\* extra calendar days, beyond the retention depth, the long-run harness uses
ExtraDays == 1
\* number of out-of-order (late) upserts the long-run harness may issue
MaxLate == 1
\* late upserts are issued from this many days before the ledger is full
LateWindow == 10
\* number of sessions and confirmed reminders credited in a day before the
\* user stops opening exercise lists
MaxSessions == 1
MaxTasks == 2
\* scheduleNextReminders calls issued in a run
MaxCalls == 2

(***************************************************************************)
(* Program constants.                                                      *)
(***************************************************************************)
\* history.slice(Math.max(0, next.length - 30)); maxDays = 30
HistoryMax == 30
\* upsertTodayStats(todayStats, maxDays = 30)
DefaultMaxDays == 30
\* useState(8), useState(1200), useState(3600)
DefaultWaterGoal == 8
DefaultEyeInterval == 1200
DefaultStretchInterval == 3600
\* first calendar day (day number) of a run: 2023-12-30
StartDay == 1

None == "none"

(***************************************************************************)
(* JavaScript strings are sequences of UTF-16 code units.                  *)
(***************************************************************************)
CharHyphen == 45
CharZero == 48

RECURSIVE DecDigits(_)
\* String(n) for a non-negative integer n
DecDigits(n) ==
  IF n < 10 THEN <<CharZero + n>>
  ELSE Append(DecDigits(n \div 10), CharZero + (n % 10))

RECURSIVE padStart(_, _, _)
\* s.padStart(len, fill) for a one-character fill
padStart(s, len, fill) ==
  IF Len(s) >= len THEN s ELSE padStart(<<fill>> \o s, len, fill)

RECURSIVE StrLessFrom(_, _, _)
\* a < b decided from the code unit at position i on
StrLessFrom(a, b, i) ==
  IF i > Len(b) THEN FALSE
  ELSE IF i > Len(a) THEN TRUE
  ELSE IF a[i] # b[i] THEN a[i] < b[i]
  ELSE StrLessFrom(a, b, i + 1)

\* a < b on strings: lexicographic comparison of code units
StrLess(a, b) == StrLessFrom(a, b, 1)

(***************************************************************************)
(* Local calendar.  A Date at local midnight is a day number; day 0 is     *)
(* 2023-12-29, so that the modelled days cross a month and a year end.     *)
(***************************************************************************)
getFullYear(n) == IF n <= 2 THEN 2023 ELSE 2024
\* 0-based month, as Date.prototype.getMonth
getMonth(n) == IF n <= 2 THEN 11 ELSE IF n <= 33 THEN 0 ELSE 1
getDate(n) == IF n <= 2 THEN 29 + n ELSE IF n <= 33 THEN n - 2 ELSE n - 33

\* new Date(y, m, d + delta): the Date constructor normalises the overflow
addDays(n, delta) == n + delta

\* `${y}-${m}-${day}` with m and day padded to two characters
FormatDayKey(n) ==
  DecDigits(getFullYear(n)) \o <<CharHyphen>>
    \o padStart(DecDigits(getMonth(n) + 1), 2, CharZero) \o <<CharHyphen>>
    \o padStart(DecDigits(getDate(n)), 2, CharZero)

\* the days of the modelled calendar
CalendarDays == -1..(HistoryMax + ExtraDays + 1)

\* dayKey(d), tabulated over the modelled calendar
DayKeyTable == [n \in CalendarDays |-> FormatDayKey(n)]

dayKey(n) == DayKeyTable[n]

(***************************************************************************)
(* Day records are JavaScript objects: functions from field names to       *)
(* values, whose domain may lack fields.                                   *)
(***************************************************************************)
Has(e, f) == f \in DOMAIN e
\* e[f] ?? 0
OrZero(e, f) == IF Has(e, f) THEN e[f] ELSE 0
\* { ...a, ...b }
Spread(a, b) ==
  [f \in (DOMAIN a) \cup (DOMAIN b) |-> IF f \in DOMAIN b THEN b[f] ELSE a[f]]

ZeroStats(dk) ==
  [dayKey |-> dk, water |-> 0, eyeBreaks |-> 0, stretches |-> 0, workTime |-> 0]

RECURSIVE SelectSeqBy(_, _)
\* prev.filter((e) => e.dayKey !== current)
SelectSeqBy(s, dk) ==
  IF s = <<>> THEN <<>>
  ELSE IF Head(s).dayKey # dk THEN <<Head(s)>> \o SelectSeqBy(Tail(s), dk)
  ELSE SelectSeqBy(Tail(s), dk)

\* the comparator of a descending sort
CompareDayKeyDesc(a, b) == IF StrLess(b.dayKey, a.dayKey) THEN -1 ELSE 1

\* the comparator (a, b) => (a.dayKey < b.dayKey ? -1 : 1)
CompareDayKey(a, b) == IF StrLess(a.dayKey, b.dayKey) THEN -1 ELSE 1

RECURSIVE InsertSorted(_, _)
InsertSorted(s, x) ==
  IF s = <<>> THEN <<x>>
  ELSE IF CompareDayKey(x, Head(s)) < 0 THEN <<x>> \o s
  ELSE <<Head(s)>> \o InsertSorted(Tail(s), x)

RECURSIVE SortByDayKey(_)
\* Array.prototype.sort with CompareDayKey (stable insertion order)
SortByDayKey(s) ==
  IF s = <<>> THEN <<>>
  ELSE InsertSorted(SortByDayKey(SubSeq(s, 1, Len(s) - 1)), s[Len(s)])

\* a trim that keeps the first maxDays entries: s.slice(0, maxDays)
SliceFirst(s, maxDays) ==
  SubSeq(s, 1, IF Len(s) < maxDays THEN Len(s) ELSE maxDays)

\* s.slice(Math.max(0, s.length - maxDays))
SliceLast(s, maxDays) ==
  LET from == IF Len(s) - maxDays > 0 THEN Len(s) - maxDays ELSE 0
  IN SubSeq(s, from + 1, Len(s))

\* an updater that appends without removing the day's earlier record
upsertTodayAppend(prev, stats) ==
  SliceLast(SortByDayKey(Append(prev, stats)), HistoryMax)

\* the updater of the upsert-today effect of the web component
upsertToday(prev, stats) ==
  LET without == SelectSeqBy(prev, stats.dayKey)
      next == SortByDayKey(Append(without, stats))
  IN SliceLast(next, HistoryMax)

\* history.findIndex((e) => e.dayKey === dk), 1-based, 0 when not found
findIndex(h, dk) ==
  LET idx == {i \in 1..Len(h) : h[i].dayKey = dk}
  IN IF idx = {} THEN 0 ELSE CHOOSE i \in idx : \A j \in idx : i <= j

\* upsertTodayStats of the native ledger helper, as a function of the stored
\* history it loads; today is the day number dateKey() falls back to
upsertTodayStats(stored, stats, maxDays, today) ==
  LET dk == IF Has(stats, "dayKey") THEN stats.dayKey ELSE dayKey(today)
      keyed == [dayKey |-> dk]
      idx == findIndex(stored, dk)
      h == IF idx > 0
           THEN [stored EXCEPT ![idx] = Spread(Spread(stored[idx], stats), keyed)]
           ELSE Append(stored, Spread(stats, keyed))
  IN SliceLast(SortByDayKey(h), maxDays)

(***************************************************************************)
(* Streak calculator.                                                      *)
(***************************************************************************)
\* an activity test that forgets the stretches
isActiveDayNoStretch(entry) ==
  OrZero(entry, "water") > 0 \/ OrZero(entry, "eyeBreaks") > 0

isActiveDay(entry) ==
  OrZero(entry, "water") > 0 \/ OrZero(entry, "eyeBreaks") > 0
    \/ OrZero(entry, "stretches") > 0

\* new Map(history.map((e) => [e.dayKey, e])).has(dk)
MapHas(h, dk) == \E i \in 1..Len(h) : h[i].dayKey = dk

\* new Map(history.map((e) => [e.dayKey, e])).get(dk): the last entry wins
MapGet(h, dk) ==
  LET idx == {i \in 1..Len(h) : h[i].dayKey = dk}
  IN h[CHOOSE i \in idx : \A j \in idx : i >= j]

RECURSIVE StreakWalk(_, _, _)
\* the while (true) loop of computeStreak
StreakWalk(h, cursor, streak0) ==
  IF ~MapHas(h, dayKey(cursor)) THEN streak0
  ELSE IF ~isActiveDay(MapGet(h, dayKey(cursor))) THEN streak0
  ELSE StreakWalk(h, addDays(cursor, -1), streak0 + 1)

\* a streak that forgives an inactive or missing today and starts the walk
\* at yesterday
computeStreakGrace(h, today) ==
  IF MapHas(h, dayKey(today)) /\ isActiveDay(MapGet(h, dayKey(today)))
  THEN StreakWalk(h, today, 0)
  ELSE StreakWalk(h, addDays(today, -1), 0)

\* a streak counted from 1: let streak = 1
computeStreakFromOne(h, today) == StreakWalk(h, today, 1)

computeStreak(h, today) == StreakWalk(h, today, 0)

RECURSIVE StreakLoop(_, _, _, _)
\* the while (true) loop run for at most fuel iterations: whether it reached
\* its break, and the streak counted so far
StreakLoop(h, cursor, streak0, fuel) ==
  IF fuel = 0 THEN [exited |-> FALSE, streak |-> streak0]
  ELSE IF ~MapHas(h, dayKey(cursor)) \/ ~isActiveDay(MapGet(h, dayKey(cursor)))
  THEN [exited |-> TRUE, streak |-> streak0]
  ELSE StreakLoop(h, addDays(cursor, -1), streak0 + 1, fuel - 1)

(***************************************************************************)
(* Persisted values.  A value read back from storage is a JavaScript value *)
(* of any type; it is modelled by a type tag t and, where it has one, its  *)
(* numeric value v (booleans: 0 and 1).  The numbers of the model are      *)
(* integers.                                                               *)
(***************************************************************************)
Undefined == [t |-> "undefined", v |-> 0]
Null == [t |-> "null", v |-> 0]
Num(i) == [t |-> "number", v |-> i]
\* a string holding the decimal numeral of i
NumStr(i) == [t |-> "numeral", v |-> i]
\* a string that is not a numeral
JunkStr == [t |-> "text", v |-> 0]
Bool(b) == [t |-> "boolean", v |-> IF b THEN 1 ELSE 0]

\* typeof x
TypeOf(x) ==
  CASE x.t \in {"numeral", "text"} -> "string"
    [] x.t = "null" -> "object"
    [] OTHER -> x.t

\* Number.isNaN(Number(x))
NumberIsNaN(x) == x.t \in {"undefined", "text"}

\* Number(x), where it is not NaN
ToNumber(x) == IF x.t = "null" THEN 0 ELSE x.v

\* x ?? d
OrElse(x, d) == IF x.t \in {"undefined", "null"} THEN d ELSE x

\* !!x
Truthy(x) ==
  CASE x.t \in {"number", "boolean"} -> x.v # 0
    [] x.t \in {"numeral", "text"} -> TRUE
    [] OTHER -> FALSE

Min(a, b) == IF a < b THEN a ELSE b
Max(a, b) == IF a > b THEN a ELSE b

\* clampInt(n, min, max); Math.floor is the identity on the integers of the
\* model
clampInt(n, min, max) ==
  IF NumberIsNaN(n) THEN min ELSE Min(max, Max(min, ToNumber(n)))

(***************************************************************************)
(* State of the web component, of its storage and of its environment.      *)
(***************************************************************************)
VARIABLES
  clock,            \* local calendar day reported by new Date() (day number)
  phase,            \* "constructed" (first render done) | "mounted" |
                    \* "unmounted" | "crashed" (the load effect raised)
  waterGoal, eyeBreakInterval, stretchInterval,
  waterCount, eyeBreakTimer, stretchTimer, isPaused,
  showNotif,        \* "eye" | "stretch" | None
  showExercise,     \* "eye" | "stretch" | None
  activeExercise,   \* [type, index, remaining] | NoExercise
  history, streak, todayStats,
  lastDayRef,       \* lastDayRef.current
  lsState,          \* localStorage[STORAGE_STATE_KEY]
  lsHistory,        \* localStorage[STORAGE_HISTORY_KEY]
  dismissTimers,    \* pending setTimeout(() => setShowNotif(null), 6000)
                    \* oldest first, each the tick that created it
  events,           \* "break due" events raised by the last step
  pausedAt,         \* history variable: <<eyeBreakTimer, stretchTimer,
                    \* workTime, n>> as they were when the last pause
                    \* began, n = 1 once the calendar day changed during
                    \* that pause; <<>> once a tick, a detected rollover
                    \* or an interval change followed
  nTicks, nClock, nSet,   \* steps taken so far, for the bounds
  op,               \* ledger harness: the last upsert applied
  saveTimers,       \* pending timeouts of the debounced save, oldest first:
                    \* [payload, current], current = the timeout whose id
                    \* saveDebounceRef.current holds
  tasks,            \* native history effect: the async upserts in flight
  calls,            \* scheduleNextReminders calls, in the order issued:
                    \* [enabled, eyeSeconds, stretchSeconds, pc]
  scheduled         \* LocalNotifications: the pending notifications,
                    \* [id, ahead], ahead = seconds between now and at

settingsVars == <<waterGoal, eyeBreakInterval, stretchInterval>>
timerVars == <<eyeBreakTimer, stretchTimer>>
uiVars == <<showNotif, showExercise, activeExercise>>
ledgerVars == <<history, streak, lsHistory>>
boundVars == <<nTicks, nClock, nSet>>
vars ==
  <<clock, phase, waterGoal, eyeBreakInterval, stretchInterval, waterCount,
    eyeBreakTimer, stretchTimer, isPaused, showNotif, showExercise,
    activeExercise, history, streak, todayStats, lastDayRef, lsState,
    lsHistory, dismissTimers, events, pausedAt, nTicks, nClock, nSet, op,
    saveTimers, tasks, calls, scheduled>>
asyncVars == <<tasks, calls, scheduled>>

(***************************************************************************)
(* Persisted state snapshots.  kind is "absent" (no item, or an item that  *)
(* does not parse: readLS returns null), "falsy" (an item that parses to a *)
(* falsy value) or "object"; obj holds the fields of the parsed object,    *)
(* Undefined standing for a missing field.  ts is obj.todayStats:          *)
(* has = FALSE when it is missing, dayKey = <<>> when it has no dayKey.    *)
(***************************************************************************)
NoTodayStats ==
  [has |-> FALSE, dayKey |-> <<>>, water |-> Undefined, eyeBreaks |-> Undefined,
   stretches |-> Undefined, workTime |-> Undefined]

EmptyObject ==
  [waterGoal |-> Undefined, eyeBreakInterval |-> Undefined,
   stretchInterval |-> Undefined, waterCount |-> Undefined,
   eyeBreakTimer |-> Undefined, stretchTimer |-> Undefined,
   isPaused |-> Undefined, ts |-> NoTodayStats]

AbsentState == [kind |-> "absent", obj |-> EmptyObject]
FalsyState == [kind |-> "falsy", obj |-> EmptyObject]
\* an item that is not JSON: safeParse returns the fallback, null
TextState == [kind |-> "text", obj |-> EmptyObject]
\* an item that parses to a truthy value that is not an object (a number, a
\* string, true): every field read of it is undefined
ScalarState == [kind |-> "scalar", obj |-> EmptyObject]

\* readLS(STORAGE_STATE_KEY, null) is truthy: the load effect goes on
StateLoaded(item) == item.kind \in {"object", "scalar"}

(***************************************************************************)
(* The ledger item of localStorage.  kind is "absent" (no item), "empty"   *)
(* (the empty string), "text" (not JSON), "scalar" (JSON that is not an    *)
(* array: null, a number, a string, an object) or "array"; items holds the *)
(* elements of the array.                                                  *)
(***************************************************************************)
AbsentHistory == [kind |-> "absent", items |-> <<>>]

\* writeLS(STORAGE_HISTORY_KEY, trimmed): JSON.stringify of an array
StoredArray(h) == [kind |-> "array", items |-> h]

\* an element of a stored array that is null
NullEntry == [jsNull |-> TRUE]

\* readLS(STORAGE_HISTORY_KEY, []): the fallback when the item is missing,
\* empty or does not parse, the parsed value otherwise
ParsedHistory(item) ==
  IF item.kind \in {"absent", "empty", "text"}
  THEN [isArray |-> TRUE, items |-> <<>>]
  ELSE [isArray |-> item.kind = "array", items |-> item.items]

\* Array.isArray(loadedHistory) ? loadedHistory : []
LoadedHistory(item) ==
  LET v == ParsedHistory(item) IN IF v.isArray THEN v.items ELSE <<>>

\* history.map((e) => [e.dayKey, e]) raises a TypeError on a null element
ThrowsOnEntries(h) == \E i \in 1..Len(h) : h[i] = NullEntry

\* the snapshot the debounced save writes: JSON.stringify(payload)
Snapshot(goal, eyeInt, strInt, count, eyeT, strT, paused, stats) ==
  [kind |-> "object",
   obj |-> [waterGoal |-> Num(goal), eyeBreakInterval |-> Num(eyeInt),
            stretchInterval |-> Num(strInt), waterCount |-> Num(count),
            eyeBreakTimer |-> Num(eyeT), stretchTimer |-> Num(strT),
            isPaused |-> Bool(paused),
            ts |-> [has |-> TRUE, dayKey |-> stats.dayKey,
                    water |-> Num(stats.water),
                    eyeBreaks |-> Num(stats.eyeBreaks),
                    stretches |-> Num(stats.stretches),
                    workTime |-> Num(stats.workTime)]]]

(***************************************************************************)
(* The debounced save effect: it runs after every commit in which one of   *)
(* its dependencies changed, and on the first commit.                      *)
(***************************************************************************)
\* const payload = { ... }, of the state as rendered
Payload ==
  [waterGoal |-> waterGoal, eyeBreakInterval |-> eyeBreakInterval,
   stretchInterval |-> stretchInterval, waterCount |-> waterCount,
   eyeBreakTimer |-> eyeBreakTimer, stretchTimer |-> stretchTimer,
   isPaused |-> isPaused, todayStats |-> todayStats]

\* writeLS(STORAGE_STATE_KEY, payload)
StoredPayload(p) ==
  Snapshot(p.waterGoal, p.eyeBreakInterval, p.stretchInterval, p.waterCount,
           p.eyeBreakTimer, p.stretchTimer, p.isPaused, p.todayStats)

\* an effect that does not cancel the timeout it scheduled before
ClearTimeoutNone(timers) ==
  [i \in 1..Len(timers) |-> [timers[i] EXCEPT !.current = FALSE]]

\* if (saveDebounceRef.current) clearTimeout(saveDebounceRef.current)
ClearTimeout(timers) == SelectSeq(timers, LAMBDA t : ~t.current)

\* the body of the effect: cancel, then saveDebounceRef.current =
\* setTimeout(() => writeLS(STORAGE_STATE_KEY, payload), 250)
Schedule(timers, p) ==
  Append(ClearTimeout(timers), [payload |-> p, current |-> TRUE])

\* the effect after each of the commits whose payloads are given, in order
RECURSIVE ScheduleAll(_, _)
ScheduleAll(timers, payloads) ==
  IF payloads = <<>> THEN timers
  ELSE ScheduleAll(Schedule(timers, Head(payloads)), Tail(payloads))

\* the effect after the commit of a step: its dependencies are compared
SaveEffect ==
  /\ saveTimers' = IF Payload' # Payload THEN Schedule(saveTimers, Payload')
                   ELSE saveTimers
  /\ UNCHANGED asyncVars

\* activeExercise when no session runs (null)
NoExercise == [type |-> None, index |-> 0, remaining |-> 0]

\* ledger harness: no upsert applied yet
NoOp == [kind |-> "none", run |-> [n |-> 0, late |-> 0, second |-> <<>>]]

(***************************************************************************)
(* Construction: the useState / useRef initial values, before any effect.  *)
(***************************************************************************)
Constructed ==
  /\ phase = "constructed"
  /\ waterGoal = DefaultWaterGoal
  /\ eyeBreakInterval = DefaultEyeInterval
  /\ stretchInterval = DefaultStretchInterval
  /\ waterCount = 0
  /\ eyeBreakTimer = DefaultEyeInterval
  /\ stretchTimer = DefaultStretchInterval
  /\ isPaused = FALSE
  /\ showNotif = None
  /\ showExercise = None
  /\ activeExercise = NoExercise
  /\ history = <<>>
  /\ streak = 0
  /\ todayStats = ZeroStats(dayKey(clock))
  /\ lastDayRef = dayKey(clock)
  /\ dismissTimers = <<>>
  /\ events = <<>>
  /\ pausedAt = <<>>
  /\ nTicks = 0 /\ nClock = 0 /\ nSet = 0
  /\ op = NoOp
  /\ saveTimers = <<>>
  /\ tasks = <<>>
  /\ calls = <<>>
  /\ scheduled = {}

(***************************************************************************)
(* The upsert-today effect: runs after every render in which todayStats    *)
(* is a new object.                                                        *)
(***************************************************************************)
\* an effect that computes the streak from the ledger it started from
UpsertEffectStale(prev, stats) ==
  /\ history' = upsertToday(prev, stats)
  /\ lsHistory' = StoredArray(history')
  /\ streak' = computeStreak(prev, clock)

UpsertEffect(prev, stats) ==
  /\ history' = upsertToday(prev, stats)
  /\ lsHistory' = StoredArray(history')
  /\ streak' = computeStreak(history', clock)

(***************************************************************************)
(* Mount: the effects of the first commit, in declaration order, and the   *)
(* renders they cause.  The load effect reads both storage items; the      *)
(* upsert effect of the first commit upserts the initial todayStats into   *)
(* the loaded history; when load replaced todayStats the effect runs again *)
(* with the restored value.                                                *)
(***************************************************************************)
\* the todayStats the load effect sets when the snapshot is of the same day
RestoredStats(ts, current) ==
  [dayKey |-> current,
   water |-> clampInt(OrElse(ts.water, Num(0)), 0, 500),
   eyeBreaks |-> clampInt(OrElse(ts.eyeBreaks, Num(0)), 0, 500),
   stretches |-> clampInt(OrElse(ts.stretches, Num(0)), 0, 500),
   workTime |-> clampInt(OrElse(ts.workTime, Num(0)), 0, 24 * 3600)]

\* s.todayStats?.dayKey === current
SameDay(s, current) == s.ts.has /\ s.ts.dayKey = current

\* setEyeBreakTimer(s.eyeBreakInterval ?? 1200): the stored value itself
RawOrElse(x, d) == ToNumber(OrElse(x, Num(d)))

\* the load effect raises in computeStreak: the error leaves the effect, the
\* component tree is dismounted, nothing is stored
LoadThrows ==
  /\ phase' = "crashed"
  /\ UNCHANGED <<settingsVars, timerVars, waterCount, isPaused, todayStats,
                 ledgerVars>>

MountLoaded ==
  /\ phase' = "mounted"
  /\ LET s == lsState.obj
         current == dayKey(clock)
         loaded == StateLoaded(lsState)
         loadedHistory == LoadedHistory(lsHistory)
         first == upsertToday(loadedHistory, todayStats)
     IN IF ~loaded
        THEN /\ UpsertEffect(loadedHistory, todayStats)
             /\ UNCHANGED <<settingsVars, timerVars, waterCount, isPaused,
                            todayStats>>
        ELSE /\ waterGoal' = IF TypeOf(s.waterGoal) = "number"
                             THEN clampInt(s.waterGoal, 6, 12) ELSE waterGoal
             /\ eyeBreakInterval' =
                  IF TypeOf(s.eyeBreakInterval) = "number"
                  THEN clampInt(s.eyeBreakInterval, 600, 7200)
                  ELSE eyeBreakInterval
             /\ stretchInterval' =
                  IF TypeOf(s.stretchInterval) = "number"
                  THEN clampInt(s.stretchInterval, 900, 10800)
                  ELSE stretchInterval
             /\ IF SameDay(s, current)
                THEN /\ todayStats' = RestoredStats(s.ts, current)
                     /\ waterCount' = clampInt(OrElse(s.waterCount, Num(0)), 0, 200)
                     /\ eyeBreakTimer' =
                          clampInt(OrElse(s.eyeBreakTimer, Num(1200)), 1, 7200)
                     /\ stretchTimer' =
                          clampInt(OrElse(s.stretchTimer, Num(3600)), 1, 10800)
                     /\ isPaused' = Truthy(s.isPaused)
                ELSE /\ todayStats' = ZeroStats(current)
                     /\ waterCount' = 0
                     /\ eyeBreakTimer' = RawOrElse(s.eyeBreakInterval, 1200)
                     /\ stretchTimer' = RawOrElse(s.stretchInterval, 3600)
                     /\ isPaused' = FALSE
             /\ UpsertEffect(first, todayStats')

Mount ==
  /\ phase = "constructed"
  /\ IF ThrowsOnEntries(LoadedHistory(lsHistory)) THEN LoadThrows
     ELSE MountLoaded
  /\ UNCHANGED <<pausedAt, clock, uiVars, lastDayRef, lsState, dismissTimers, events,
                 boundVars, op, asyncVars>>
  \* the save effect of the first commits, or its cleanup
  /\ saveTimers' = IF phase' = "mounted" THEN Schedule(saveTimers, Payload')
                   ELSE ClearTimeout(saveTimers)

(***************************************************************************)
(* Main timers: the one-second interval, which exists only while the       *)
(* component is not paused.  triggerNotification runs inside the state     *)
(* updaters, the eye one first.                                            *)
(***************************************************************************)
\* the events of one tick, in the order the updaters raise them
TickEvents(eyeT, strT) ==
  (IF eyeT <= 1 THEN <<"eye">> ELSE <<>>)
    \o (IF strT <= 1 THEN <<"stretch">> ELSE <<>>)

\* triggerNotification(type) applied to the part of the state a tick
\* touches: setShowNotif(type), and the event is recorded
Notify(st, type) ==
  [st EXCEPT !.showNotif = type, !.events = Append(@, type)]

\* the three updates of one tick, each on [eyeT, strT, workTime, showNotif,
\* events]
EyeUpdate(st, interval) ==
  IF st.eyeT <= 1 THEN [Notify(st, "eye") EXCEPT !.eyeT = interval]
  ELSE [st EXCEPT !.eyeT = @ - 1]

StretchUpdate(st, interval) ==
  IF st.strT <= 1 THEN [Notify(st, "stretch") EXCEPT !.strT = interval]
  ELSE [st EXCEPT !.strT = @ - 1]

WorkUpdate(st) == [st EXCEPT !.workTime = @ + 1]

TickUpdate(name, st, eyeInt, strInt) ==
  CASE name = "eye" -> EyeUpdate(st, eyeInt)
    [] name = "stretch" -> StretchUpdate(st, strInt)
    [] OTHER -> WorkUpdate(st)

\* the orders the three updates can be applied in; the interval callback
\* applies them in the first one
TickOrders ==
  {<<"eye", "stretch", "work">>, <<"eye", "work", "stretch">>,
   <<"stretch", "eye", "work">>, <<"stretch", "work", "eye">>,
   <<"work", "eye", "stretch">>, <<"work", "stretch", "eye">>}

\* the three updates applied to st in the given order
TickIn(order, st, eyeInt, strInt) ==
  TickUpdate(order[3],
             TickUpdate(order[2],
                        TickUpdate(order[1], st, eyeInt, strInt),
                        eyeInt, strInt),
             eyeInt, strInt)

\* the part of the state a tick touches, as the interval callback finds it
TickState ==
  [eyeT |-> eyeBreakTimer, strT |-> stretchTimer,
   workTime |-> todayStats.workTime, showNotif |-> showNotif, events |-> <<>>]

\* a commit after each of the three setState calls of the callback
TickCommitsEach(st, eyeInt, strInt) ==
  LET s1 == EyeUpdate(st, eyeInt)
      s2 == StretchUpdate(s1, strInt)
  IN <<s1, s2, WorkUpdate(s2)>>

\* the states committed for one interval callback: its three setState
\* calls are batched into one render and one commit
TickCommits(st, eyeInt, strInt) ==
  <<TickIn(<<"eye", "stretch", "work">>, st, eyeInt, strInt)>>

\* the payload the save effect builds after the commit c of a tick
CommitPayload(c) ==
  [Payload EXCEPT !.eyeBreakTimer = c.eyeT, !.stretchTimer = c.strT,
                  !.todayStats = [todayStats EXCEPT !.workTime = c.workTime]]

\* a countdown that resets one second late: prev <= 0 instead of prev <= 1
TimerStepLate(prev, interval) == IF prev <= 0 THEN interval ELSE prev - 1

\* the updater of setEyeBreakTimer / setStretchTimer
TimerStep(prev, interval) == IF prev <= 1 THEN interval ELSE prev - 1

\* an interval that is created whatever isPaused is
TimersAlways == TRUE

\* if (isPaused) return: the interval exists only while not paused
TimersRunning == ~isPaused

Tick ==
  /\ phase = "mounted"
  /\ TimersRunning
  /\ nTicks < MaxTicks
  /\ nTicks' = nTicks + 1
  /\ eyeBreakTimer' = TimerStep(eyeBreakTimer, eyeBreakInterval)
  /\ stretchTimer' = TimerStep(stretchTimer, stretchInterval)
  /\ todayStats' = [todayStats EXCEPT !.workTime = @ + 1]
  /\ events' = TickEvents(eyeBreakTimer, stretchTimer)
  /\ showNotif' = IF events' = <<>> THEN showNotif ELSE events'[Len(events')]
  /\ dismissTimers' = dismissTimers \o [i \in 1..Len(events') |-> nTicks']
  /\ UpsertEffect(history, todayStats')
  /\ pausedAt' = <<>>
  /\ LET commits == TickCommits(TickState, eyeBreakInterval, stretchInterval)
     IN saveTimers' = ScheduleAll(saveTimers,
                                  [i \in 1..Len(commits) |->
                                     CommitPayload(commits[i])])
  /\ UNCHANGED <<clock, phase, settingsVars, waterCount, isPaused,
                 showExercise, activeExercise, lastDayRef, lsState, nClock,
                 nSet, op, asyncVars>>

\* the auto-dismiss timeout of a reminder fires
\* (setShowNotif(null) changes nothing once the component is dismounted)
NotifTimeout ==
  /\ phase \in {"mounted", "unmounted"}
  /\ dismissTimers # <<>>
  /\ dismissTimers' = Tail(dismissTimers)
  /\ showNotif' = IF phase = "mounted" THEN None ELSE showNotif
  /\ events' = <<>>
  /\ UNCHANGED <<pausedAt, clock, phase, settingsVars, timerVars, waterCount, isPaused,
                 showExercise, activeExercise, ledgerVars, todayStats,
                 lastDayRef, lsState, boundVars, op>>
  /\ SaveEffect

\* the timeout of the debounced save fires: timeouts of equal delay fire in
\* the order they were created
SaveFires ==
  /\ saveTimers # <<>>
  /\ lsState' = StoredPayload(Head(saveTimers).payload)
  /\ saveTimers' = Tail(saveTimers)
  /\ events' = <<>>
  /\ UNCHANGED <<pausedAt, clock, phase, settingsVars, timerVars, waterCount,
                 isPaused, uiVars, ledgerVars, todayStats, lastDayRef,
                 dismissTimers, boundVars, op, asyncVars>>

\* the component is dismounted: the cleanups of its effects run.  The tick,
\* the rollover poll and the session runner are intervals their effects
\* clear (they run only while phase = "mounted"); the save effect clears
\* its timeout; nothing holds the ids of the auto-dismiss timeouts
Unmount ==
  /\ phase = "mounted"
  /\ phase' = "unmounted"
  /\ saveTimers' = ClearTimeout(saveTimers)
  /\ events' = <<>>
  /\ UNCHANGED <<pausedAt, clock, settingsVars, timerVars, waterCount,
                 isPaused, uiVars, ledgerVars, todayStats, lastDayRef,
                 lsState, dismissTimers, boundVars, op, asyncVars>>

(***************************************************************************)
(* Rollover: the 30-second poll.                                           *)
(***************************************************************************)
\* a reset that restarts the countdowns from the initial intervals
RolloverResetDefaults(current) ==
  /\ lastDayRef' = current
  /\ todayStats' = ZeroStats(current)
  /\ waterCount' = 0
  /\ eyeBreakTimer' = DefaultEyeInterval
  /\ stretchTimer' = DefaultStretchInterval
  /\ showNotif' = None
  /\ showExercise' = None
  /\ activeExercise' = NoExercise
  /\ isPaused' = FALSE

\* the body of if (lastDayRef.current !== current)
RolloverReset(current) ==
  /\ lastDayRef' = current
  /\ todayStats' = ZeroStats(current)
  /\ waterCount' = 0
  /\ eyeBreakTimer' = eyeBreakInterval
  /\ stretchTimer' = stretchInterval
  /\ showNotif' = None
  /\ showExercise' = None
  /\ activeExercise' = NoExercise
  /\ isPaused' = FALSE

RolloverPoll ==
  /\ phase = "mounted"
  /\ events' = <<>>
  /\ LET current == dayKey(clock)
     IN IF lastDayRef # current
        THEN /\ RolloverReset(current)
             /\ pausedAt' = <<>>
             /\ UpsertEffect(history, todayStats')
        ELSE UNCHANGED <<lastDayRef, todayStats, waterCount, timerVars,
                         uiVars, isPaused, ledgerVars, pausedAt>>
  /\ UNCHANGED <<clock, phase, settingsVars, lsState, dismissTimers,
                 boundVars, op>>
  /\ SaveEffect

(***************************************************************************)
(* The environment: local midnight passes, or the local date is set back   *)
(* (clock adjustment, change of time zone).                                *)
(***************************************************************************)
ClockStep(d) ==
  /\ phase = "mounted"
  /\ nClock < MaxClockChanges
  /\ d \in StartDay..MaxDay
  /\ clock' = d
  /\ nClock' = nClock + 1
  /\ events' = <<>>
  /\ pausedAt' = IF isPaused /\ pausedAt # <<>>
                 THEN [pausedAt EXCEPT ![4] = 1] ELSE pausedAt
  /\ UNCHANGED <<phase, settingsVars, timerVars, waterCount, isPaused, uiVars,
                 ledgerVars, todayStats, lastDayRef, lsState, dismissTimers,
                 nTicks, nSet, op>>
  /\ SaveEffect

Midnight == ClockStep(clock + 1)

ClockSetBack == ClockStep(clock - 1)

(***************************************************************************)
(* User actions.                                                           *)
(***************************************************************************)
TogglePause ==
  /\ phase = "mounted"
  /\ isPaused' = ~isPaused
  /\ events' = <<>>
  /\ pausedAt' = IF isPaused THEN pausedAt
                 ELSE <<eyeBreakTimer, stretchTimer, todayStats.workTime, 0>>
  /\ UNCHANGED <<clock, phase, settingsVars, timerVars, waterCount, uiVars,
                 ledgerVars, todayStats, lastDayRef, lsState, dismissTimers,
                 boundVars, op>>
  /\ SaveEffect

addWater ==
  /\ phase = "mounted"
  /\ waterCount < waterGoal
  /\ waterCount < MaxWater
  /\ waterCount' = waterCount + 1
  /\ todayStats' = [todayStats EXCEPT !.water = @ + 1]
  /\ events' = <<>>
  /\ UpsertEffect(history, todayStats')
  /\ UNCHANGED <<pausedAt, clock, phase, settingsVars, timerVars, isPaused, uiVars,
                 lastDayRef, lsState, dismissTimers, boundVars, op>>
  /\ SaveEffect

completeEyeBreak ==
  /\ phase = "mounted"
  /\ showNotif = "eye"
  /\ todayStats' = [todayStats EXCEPT !.eyeBreaks = @ + 1]
  /\ showNotif' = None
  /\ events' = <<>>
  /\ UpsertEffect(history, todayStats')
  /\ UNCHANGED <<pausedAt, clock, phase, settingsVars, timerVars, waterCount, isPaused,
                 showExercise, activeExercise, lastDayRef, lsState,
                 dismissTimers, boundVars, op>>
  /\ SaveEffect

completeStretch ==
  /\ phase = "mounted"
  /\ showNotif = "stretch"
  /\ todayStats' = [todayStats EXCEPT !.stretches = @ + 1]
  /\ showNotif' = None
  /\ events' = <<>>
  /\ UpsertEffect(history, todayStats')
  /\ UNCHANGED <<pausedAt, clock, phase, settingsVars, timerVars, waterCount, isPaused,
                 showExercise, activeExercise, lastDayRef, lsState,
                 dismissTimers, boundVars, op>>
  /\ SaveEffect

\* onClose of the reminder card
CloseNotif ==
  /\ phase = "mounted"
  /\ showNotif # None
  /\ showNotif' = None
  /\ events' = <<>>
  /\ UNCHANGED <<pausedAt, clock, phase, settingsVars, timerVars, waterCount, isPaused,
                 showExercise, activeExercise, ledgerVars, todayStats,
                 lastDayRef, lsState, dismissTimers, boundVars, op>>
  /\ SaveEffect

(***************************************************************************)
(* Exercise sessions: the list modal, the runner (a one-second interval    *)
(* that exists while a session is active, whatever isPaused is), and the   *)
(* two buttons of the session screen.                                      *)
(***************************************************************************)
\* durationSec of the exercises of each list
Durations(type) ==
  IF type = "eye" THEN <<20, 20, 20>> ELSE <<30, 30, 30, 30>>

\* what the session step leaves untouched
SessionFrame ==
  /\ UNCHANGED <<pausedAt, clock, phase, settingsVars, timerVars, waterCount,
                  isPaused, showNotif, lastDayRef, lsState, dismissTimers,
                  boundVars, op>>
  /\ SaveEffect

\* finishing a session credits one session of its type
CreditSession(type) ==
  /\ todayStats' = IF type = "eye"
                   THEN [todayStats EXCEPT !.eyeBreaks = @ + 1]
                   ELSE [todayStats EXCEPT !.stretches = @ + 1]
  /\ UpsertEffect(history, todayStats')

\* a tap on one of the two countdown cards opens the exercise list
OpenExercises(type) ==
  /\ phase = "mounted"
  /\ showExercise = None /\ activeExercise = NoExercise
  /\ todayStats.eyeBreaks + todayStats.stretches < MaxSessions
  /\ showExercise' = type
  /\ events' = <<>>
  /\ UNCHANGED <<activeExercise, todayStats, ledgerVars>>
  /\ SessionFrame

\* the close button or the backdrop of the list modal
CloseExercises ==
  /\ phase = "mounted"
  /\ showExercise # None
  /\ showExercise' = None
  /\ events' = <<>>
  /\ UNCHANGED <<activeExercise, todayStats, ledgerVars>>
  /\ SessionFrame

\* the "Commencer" button of the list modal
StartSession ==
  /\ phase = "mounted"
  /\ showExercise # None
  /\ activeExercise' = [type |-> showExercise, index |-> 0,
                        remaining |-> Durations(showExercise)[1]]
  /\ showExercise' = None
  /\ events' = <<>>
  /\ UNCHANGED <<todayStats, ledgerVars>>
  /\ SessionFrame

\* one callback of the exercise runner interval
RunnerTick ==
  /\ phase = "mounted"
  /\ activeExercise # NoExercise
  /\ events' = <<>>
  /\ LET prev == activeExercise
         list == Durations(prev.type)
         nextIndex == prev.index + 1
     IN IF prev.remaining <= 1
        THEN IF nextIndex < Len(list)
             THEN /\ activeExercise' = [type |-> prev.type, index |-> nextIndex,
                                        remaining |-> list[nextIndex + 1]]
                  /\ UNCHANGED <<todayStats, ledgerVars>>
             ELSE /\ CreditSession(prev.type)
                  /\ activeExercise' = NoExercise
        ELSE /\ activeExercise' = [prev EXCEPT !.remaining = @ - 1]
             /\ UNCHANGED <<todayStats, ledgerVars>>
  /\ UNCHANGED showExercise
  /\ SessionFrame

\* the "Arrêter" button of the session screen
StopSession ==
  /\ phase = "mounted"
  /\ activeExercise # NoExercise
  /\ activeExercise' = NoExercise
  /\ events' = <<>>
  /\ UNCHANGED <<showExercise, todayStats, ledgerVars>>
  /\ SessionFrame

\* the "Suivant" button of the session screen
NextStep ==
  /\ phase = "mounted"
  /\ activeExercise # NoExercise
  /\ events' = <<>>
  /\ LET list == Durations(activeExercise.type)
         nextIndex == activeExercise.index + 1
     IN IF nextIndex < Len(list)
        THEN /\ activeExercise' = [type |-> activeExercise.type,
                                   index |-> nextIndex,
                                   remaining |-> list[nextIndex + 1]]
             /\ UNCHANGED <<todayStats, ledgerVars>>
        ELSE /\ CreditSession(activeExercise.type)
             /\ activeExercise' = NoExercise
  /\ UNCHANGED showExercise
  /\ SessionFrame

(***************************************************************************)
(* Settings panel.                                                         *)
(***************************************************************************)
EyeIntervalOptions == {1200, 1800, 2400}
StretchIntervalOptions == {2400, 3600, 5400}
WaterGoalOptions == 6..12

SetWaterGoal(v) ==
  /\ phase = "mounted"
  /\ nSet < MaxSettings
  /\ v # waterGoal
  /\ waterGoal' = v
  /\ nSet' = nSet + 1
  /\ events' = <<>>
  /\ UNCHANGED <<pausedAt, clock, phase, eyeBreakInterval, stretchInterval, timerVars,
                 waterCount, isPaused, uiVars, ledgerVars, todayStats,
                 lastDayRef, lsState, dismissTimers, nTicks, nClock, op>>
  /\ SaveEffect

SetEyeBreakInterval(v) ==
  /\ phase = "mounted"
  /\ nSet < MaxSettings
  /\ v # eyeBreakInterval
  /\ eyeBreakInterval' = v
  /\ eyeBreakTimer' = Min(eyeBreakTimer, v)
  /\ nSet' = nSet + 1
  /\ events' = <<>>
  /\ pausedAt' = <<>>
  /\ UNCHANGED <<clock, phase, waterGoal, stretchInterval, stretchTimer,
                 waterCount, isPaused, uiVars, ledgerVars, todayStats,
                 lastDayRef, lsState, dismissTimers, nTicks, nClock, op>>
  /\ SaveEffect

SetStretchInterval(v) ==
  /\ phase = "mounted"
  /\ nSet < MaxSettings
  /\ v # stretchInterval
  /\ stretchInterval' = v
  /\ stretchTimer' = Min(stretchTimer, v)
  /\ nSet' = nSet + 1
  /\ events' = <<>>
  /\ pausedAt' = <<>>
  /\ UNCHANGED <<clock, phase, waterGoal, eyeBreakInterval, eyeBreakTimer,
                 waterCount, isPaused, uiVars, ledgerVars, todayStats,
                 lastDayRef, lsState, dismissTimers, nTicks, nClock, op>>
  /\ SaveEffect

(***************************************************************************)
(* The component: a run starts with what an earlier run left in storage.   *)
(***************************************************************************)
\* the ledger an earlier run left: the record of the day before StartDay
StoredLedger ==
  <<[dayKey |-> dayKey(StartDay - 1), water |-> 3, eyeBreaks |-> 0,
     stretches |-> 1, workTime |-> 40]>>

\* what an earlier run left: nothing, or a ledger and a snapshot taken on
\* StartDay when both countdowns were about to end
StoredRuns ==
  {<<AbsentState, AbsentHistory>>}
    \cup {<<Snapshot(8, 1200, 2400, 1, e, 1, FALSE,
                     [ZeroStats(dayKey(StartDay)) EXCEPT !.water = 1,
                                                         !.workTime = 5]),
            StoredArray(StoredLedger)>> : e \in {1, 2}}

Init ==
  /\ clock = StartDay
  /\ \E run \in StoredRuns : lsState = run[1] /\ lsHistory = run[2]
  /\ Constructed

Next ==
  \/ Mount
  \/ Tick
  \/ NotifTimeout
  \/ RolloverPoll
  \/ Midnight
  \/ ClockSetBack
  \/ TogglePause
  \/ addWater
  \/ completeEyeBreak
  \/ completeStretch
  \/ CloseNotif

\* a run in which the user leaves the settings panel alone
Spec == Init /\ [][Next]_vars

\* a run in which the user also changes the settings
NextSettings ==
  \/ Next
  \/ \E v \in WaterGoalOptions : SetWaterGoal(v)
  \/ \E v \in EyeIntervalOptions : SetEyeBreakInterval(v)
  \/ \E v \in StretchIntervalOptions : SetStretchInterval(v)

SpecSettings == Init /\ [][NextSettings]_vars

\* a run that starts either from nothing or from the snapshot the component
\* wrote today when seven glasses of a goal of eight had been drunk, and in
\* which the user drinks and moves the goal slider
InitGoal ==
  /\ clock = StartDay
  /\ lsState \in {AbsentState,
                  Snapshot(8, 1200, 3600, 7, 1200, 3600, FALSE,
                           [ZeroStats(dayKey(StartDay)) EXCEPT !.water = 7])}
  /\ lsHistory = AbsentHistory
  /\ Constructed

NextGoal ==
  \/ Mount
  \/ Tick
  \/ TogglePause
  \/ addWater
  \/ \E v \in WaterGoalOptions : SetWaterGoal(v)

SpecGoal == InitGoal /\ [][NextGoal]_vars

\* a run within one calendar day in which the debounced save fires and the
\* component is dismounted; a timeout that is pending does fire
NextSave ==
  \/ Mount
  \/ Tick
  \/ NotifTimeout
  \/ TogglePause
  \/ addWater
  \/ SaveFires
  \/ Unmount

SpecSave == Init /\ [][NextSave]_vars /\ WF_vars(SaveFires)

\* the process is stopped (its timers die with it) and started again: the
\* component is constructed anew on the current day; the storage stays
Restart ==
  /\ phase \in {"mounted", "unmounted"}
  /\ phase' = "constructed"
  /\ waterGoal' = DefaultWaterGoal
  /\ eyeBreakInterval' = DefaultEyeInterval
  /\ stretchInterval' = DefaultStretchInterval
  /\ waterCount' = 0
  /\ eyeBreakTimer' = DefaultEyeInterval
  /\ stretchTimer' = DefaultStretchInterval
  /\ isPaused' = FALSE
  /\ showNotif' = None
  /\ showExercise' = None
  /\ activeExercise' = NoExercise
  /\ history' = <<>>
  /\ streak' = 0
  /\ todayStats' = ZeroStats(dayKey(clock))
  /\ lastDayRef' = dayKey(clock)
  /\ dismissTimers' = <<>>
  /\ saveTimers' = <<>>
  /\ events' = <<>>
  /\ pausedAt' = <<>>
  /\ UNCHANGED <<clock, lsState, lsHistory, boundVars, op, asyncVars>>

\* a run within one calendar day in which the process is also restarted
NextRestart ==
  \/ NextSave
  \/ Restart

SpecRestart == Init /\ [][NextRestart]_vars

\* a run in which the user does exercise sessions and confirms reminders
NextSession ==
  \/ Mount
  \/ Tick
  \/ RolloverPoll
  \/ Midnight
  \/ completeEyeBreak
  \/ completeStretch
  \/ \E type \in {"eye", "stretch"} : OpenExercises(type)
  \/ CloseExercises
  \/ StartSession
  \/ RunnerTick
  \/ StopSession
  \/ NextStep

SpecSession == Init /\ [][NextSession]_vars

(***************************************************************************)
(* Ledger harness: the two upserts and the streak calculator applied to    *)
(* ledgers built from bounded sets of records.  The component is not       *)
(* running: its variables keep their constructed values.                   *)
(***************************************************************************)
stateVars ==
  <<clock, phase, waterGoal, eyeBreakInterval, stretchInterval, waterCount,
    eyeBreakTimer, stretchTimer, isPaused, showNotif, showExercise,
    activeExercise, todayStats, lastDayRef, lsState, dismissTimers, events,
    pausedAt, nTicks, nClock, nSet, saveTimers, calls, scheduled>>
componentVars == <<stateVars, tasks>>

\* the counters of a record
Idle == [water |-> 0, eyeBreaks |-> 0, stretches |-> 0, workTime |-> 9]
Drank == [water |-> 2, eyeBreaks |-> 0, stretches |-> 0, workTime |-> 0]
Rested == [water |-> 0, eyeBreaks |-> 1, stretches |-> 0, workTime |-> 0]
Stretched == [water |-> 0, eyeBreaks |-> 0, stretches |-> 1, workTime |-> 0]
\* a record with missing counters
Partial == [water |-> 1]
Payloads == {Idle, Rested, Stretched, Partial}

\* { dayKey, ...counters }
Record(dk, counters) == Spread([dayKey |-> dk], counters)

HarnessInit(today) ==
  /\ clock = today
  /\ lsState = AbsentState
  /\ lsHistory = AbsentHistory
  /\ Constructed

\* the web upsert-today effect applied to the record stats; op records the
\* record, whether its dayKey was in the ledger, and the progress of the run
ApplyWeb(stats, run) ==
  /\ UpsertEffect(history, stats)
  /\ op' = [kind |-> "upsert", rec |-> stats,
            hit |-> MapHas(history, stats.dayKey), run |-> run]

\* loadHistory of the native ledger helper: [] when the item is missing,
\* empty, not JSON or not an array
loadHistory(item) == LoadedHistory(item)

\* the native history effect: upsertTodayStats on the stored ledger, then
\* setHistory and setStreak with its result
ApplyLib(stats, run) ==
  /\ history' = upsertTodayStats(loadHistory(lsHistory), stats, DefaultMaxDays,
                                 clock)
  /\ lsHistory' = StoredArray(history')
  /\ streak' = computeStreak(history', clock)
  /\ op' = [kind |-> "upsert", rec |-> stats,
            hit |-> MapHas(loadHistory(lsHistory), stats.dayKey), run |-> run]

UpsertWeb ==
  /\ \E d \in 1..LedgerDays, c \in Payloads :
       ApplyWeb(Record(dayKey(d), c), op.run)
  /\ UNCHANGED componentVars

UpsertLib ==
  /\ \E d \in 1..LedgerDays, c \in Payloads :
       ApplyLib(Record(dayKey(d), c), op.run)
  /\ UNCHANGED componentVars

InitLedger == HarnessInit(LedgerDays)

NextLedger == UpsertWeb \/ UpsertLib

SpecLedger == InitLedger /\ [][NextLedger]_vars

(***************************************************************************)
(* The native history effect: each change of todayStats starts an async    *)
(* function that awaits upsertTodayStats (await loadHistory, the upsert,   *)
(* await saveHistory) and then calls setHistory and setStreak.  Nothing    *)
(* orders the functions in flight: each await is a point where another     *)
(* one runs.  A task is [rec, pc, local]: pc = "load" until its read of    *)
(* the storage resolved, "save" until its write was done, "set" until it   *)
(* called setHistory; local is the ledger it computed.                     *)
(***************************************************************************)
\* the records the effect is run with: full records of the last two days
AsyncRecords ==
  {Record(dayKey(d), c) : d \in {LedgerDays - 1, LedgerDays},
                          c \in {Idle, Rested, Stretched}}

\* useEffect(() => { (async () => { ... })(); }, [todayStats])
IssueUpsert ==
  /\ Len(tasks) < MaxTasks
  /\ \E r \in AsyncRecords :
       tasks' = Append(tasks, [rec |-> r, pc |-> "load", local |-> <<>>])
  /\ UNCHANGED <<stateVars, ledgerVars, op>>

\* await loadHistory() resolves: the upsert is computed on what was read
\* and saveHistory is called
TaskLoad(i) ==
  /\ tasks[i].pc = "load"
  /\ tasks' = [tasks EXCEPT
                 ![i] = [@ EXCEPT !.pc = "save",
                                  !.local = upsertTodayStats(
                                              loadHistory(lsHistory), tasks[i].rec,
                                              DefaultMaxDays, clock)]]
  /\ UNCHANGED <<stateVars, ledgerVars, op>>

\* Preferences.set of saveHistory(trimmed) is done
TaskSave(i) ==
  /\ tasks[i].pc = "save"
  /\ lsHistory' = StoredArray(tasks[i].local)
  /\ tasks' = [tasks EXCEPT ![i] = [@ EXCEPT !.pc = "set"]]
  /\ UNCHANGED <<stateVars, history, streak, op>>

\* setHistory(updated); setStreak(computeStreak(updated, new Date()))
TaskCommit(i) ==
  /\ tasks[i].pc = "set"
  /\ history' = tasks[i].local
  /\ streak' = computeStreak(history', clock)
  /\ tasks' = [tasks EXCEPT ![i] = [@ EXCEPT !.pc = "done"]]
  /\ UNCHANGED <<stateVars, lsHistory, op>>

NextAsync ==
  \/ IssueUpsert
  \/ \E i \in 1..Len(tasks) : TaskLoad(i)
  \/ \E i \in 1..Len(tasks) : TaskSave(i)
  \/ \E i \in 1..Len(tasks) : TaskCommit(i)

SpecAsync == InitLedger /\ [][NextAsync]_vars

(***************************************************************************)
(* OS-level reminders (native build): the scheduling effect calls          *)
(* scheduleNextReminders at every change of notificationsEnabled,          *)
(* isPaused or a countdown and does not wait for the previous call.  A     *)
(* call awaits cancelReminders, returns when enabled is false, and         *)
(* otherwise awaits LocalNotifications.schedule; each await is a point     *)
(* where another call runs.  pc is "cancel" until the cancel was done,     *)
(* "schedule" until the schedule was done, then "done".                    *)
(***************************************************************************)
EyeReminder == 1001
StretchReminder == 1002

\* the arguments the effect passes: enabled, and the two countdowns
EnabledVals == BOOLEAN
EyeSecondsVals == {Num(1), Num(1200)}
StretchSecondsVals == {Undefined, Num(3600)}

\* Math.max(5, Number(x) || 0)
AheadSeconds(x) ==
  Max(5, IF NumberIsNaN(x) \/ ToNumber(x) = 0 THEN 0 ELSE ToNumber(x))

\* the pending notifications without those of the ids given
Cancelled(pending, ids) == {n \in pending : n.id \notin ids}

\* useEffect(() => { scheduleNextReminders({...}) }, [...]): a call starts
IssueSchedule ==
  /\ Len(calls) < MaxCalls
  /\ \E en \in EnabledVals, e \in EyeSecondsVals, t \in StretchSecondsVals :
       calls' = Append(calls, [enabled |-> en, eyeSeconds |-> e,
                               stretchSeconds |-> t, pc |-> "cancel"])
  /\ UNCHANGED <<clock, phase, settingsVars, timerVars, waterCount, isPaused,
                 uiVars, ledgerVars, todayStats, lastDayRef, lsState,
                 dismissTimers, events, pausedAt, boundVars, op, saveTimers,
                 tasks, scheduled>>

\* await cancelReminders() is over: both ids are cancelled; if (!enabled)
\* return
CancelDone(i) ==
  /\ calls[i].pc = "cancel"
  /\ scheduled' = Cancelled(scheduled, {EyeReminder, StretchReminder})
  /\ calls' = [calls EXCEPT ![i] = [@ EXCEPT !.pc = IF calls[i].enabled
                                                     THEN "schedule"
                                                     ELSE "done"]]
  /\ UNCHANGED <<clock, phase, settingsVars, timerVars, waterCount, isPaused,
                 uiVars, ledgerVars, todayStats, lastDayRef, lsState,
                 dismissTimers, events, pausedAt, boundVars, op, saveTimers,
                 tasks>>

\* await LocalNotifications.schedule({...}) is over: a notification of an
\* id already pending replaces it
ScheduleDone(i) ==
  /\ calls[i].pc = "schedule"
  /\ scheduled' =
       Cancelled(scheduled, {EyeReminder, StretchReminder})
         \cup {[id |-> EyeReminder, ahead |-> AheadSeconds(calls[i].eyeSeconds)],
               [id |-> StretchReminder,
                ahead |-> AheadSeconds(calls[i].stretchSeconds)]}
  /\ calls' = [calls EXCEPT ![i] = [@ EXCEPT !.pc = "done"]]
  /\ UNCHANGED <<clock, phase, settingsVars, timerVars, waterCount, isPaused,
                 uiVars, ledgerVars, todayStats, lastDayRef, lsState,
                 dismissTimers, events, pausedAt, boundVars, op, saveTimers,
                 tasks>>

InitNotify == HarnessInit(StartDay)

NextNotify ==
  \/ IssueSchedule
  \/ \E i \in 1..Len(calls) : CancelDone(i)
  \/ \E i \in 1..Len(calls) : ScheduleDone(i)

SpecNotify == InitNotify /\ [][NextNotify]_vars

(***************************************************************************)
(* Long-run harness: one upsert per calendar day, past the retention       *)
(* depth, with a bounded number of late upserts of an older day.           *)
(***************************************************************************)
LastDay == HistoryMax + ExtraDays

\* op.run: n day-by-day upserts were made, of days 1..n; late counts the late
\* upserts; second is the dayKey of the second upsert of the run
NextDayStep(kind) ==
  /\ op.run.n < LastDay
  /\ LET stats == Record(dayKey(op.run.n + 1), Drank)
         run == [n |-> op.run.n + 1, late |-> op.run.late,
                 second |-> IF op.run.n + op.run.late = 1 THEN stats.dayKey
                            ELSE op.run.second]
     IN IF kind = "web" THEN ApplyWeb(stats, run) ELSE ApplyLib(stats, run)
  /\ UNCHANGED componentVars

\* the days a late upsert is tried on: the first day of the run, the newest
\* day already dropped, the oldest day kept, and the day before the last
LateDays(n) == {1, n - HistoryMax, n - HistoryMax + 1, n - 1} \cap (1..n)

LateStep(kind) ==
  /\ op.run.late < MaxLate
  /\ op.run.n >= HistoryMax - LateWindow
  /\ \E d \in LateDays(op.run.n) :
       LET stats == Record(dayKey(d), Rested)
           run == [n |-> op.run.n, late |-> op.run.late + 1,
                   second |-> IF op.run.n + op.run.late = 1 THEN stats.dayKey
                              ELSE op.run.second]
       IN IF kind = "web" THEN ApplyWeb(stats, run) ELSE ApplyLib(stats, run)
  /\ UNCHANGED componentVars

InitMonth == HarnessInit(LastDay)

NextMonth ==
  \/ NextDayStep("web")
  \/ NextDayStep("lib")
  \/ LateStep("web")
  \/ LateStep("lib")

SpecMonth == InitMonth /\ [][NextMonth]_vars

(***************************************************************************)
(* Load harness: the component is constructed over an arbitrary content of *)
(* the state item of localStorage, and mounts.                             *)
(***************************************************************************)
\* values JSON can hold in the fields of the stored snapshot
GoalVals == {Undefined, Num(5), Num(8), Num(13), NumStr(9)}
EyeIntervalVals == {Undefined, Null, Num(0), Num(599), Num(1800), Num(20000)}
StretchIntervalVals == {Undefined, Num(100), Num(3600), Num(99999)}
CounterVals == {Undefined, Num(-1), Num(3), Num(501), NumStr(7), JunkStr}
WorkTimeVals == {Num(0), Num(86400), Num(90000)}
EyeTimerVals == {Undefined, Null, Num(0), Num(1), Num(7200), Num(8000)}
StretchTimerVals == {Num(-5), Num(3600)}
WaterCountVals == {Num(2), Num(201)}
PausedVals == {Undefined, Bool(TRUE), Num(0)}

\* s.todayStats of a snapshot whose day is not the current one: missing,
\* without dayKey, or of the day before
StaleTodayStats ==
  {NoTodayStats,
   [NoTodayStats EXCEPT !.has = TRUE, !.water = Num(4)],
   [NoTodayStats EXCEPT !.has = TRUE, !.dayKey = dayKey(StartDay - 1),
                        !.water = Num(4), !.workTime = Num(60)]}

StaleSnapshots ==
  {[kind |-> "object",
    obj |-> [EmptyObject EXCEPT !.waterGoal = g, !.eyeBreakInterval = e,
                                !.stretchInterval = t, !.waterCount = Num(4),
                                !.eyeBreakTimer = Num(7), !.stretchTimer = Num(9),
                                !.isPaused = Bool(TRUE), !.ts = ts]] :
     g \in GoalVals, e \in EyeIntervalVals, t \in StretchIntervalVals,
     ts \in StaleTodayStats}

SameDaySnapshots ==
  {[kind |-> "object",
    obj |-> [EmptyObject EXCEPT
               !.waterGoal = Num(10), !.eyeBreakInterval = Num(1800),
               !.waterCount = c, !.eyeBreakTimer = e, !.stretchTimer = t,
               !.isPaused = p,
               !.ts = [has |-> TRUE, dayKey |-> dayKey(StartDay), water |-> w,
                       eyeBreaks |-> Num(2), stretches |-> Undefined,
                       workTime |-> k]]] :
     c \in WaterCountVals, e \in EyeTimerVals, t \in StretchTimerVals,
     p \in PausedVals, w \in CounterVals, k \in WorkTimeVals}

\* contents of the ledger item: missing, empty, not JSON, JSON that is not
\* an array, an array of records, arrays with a null element
StoredHistories ==
  {AbsentHistory,
   [kind |-> "empty", items |-> <<>>],
   [kind |-> "text", items |-> <<>>],
   [kind |-> "scalar", items |-> <<>>],
   StoredArray(<<>>),
   StoredArray(StoredLedger),
   StoredArray(<<NullEntry>>),
   StoredArray(StoredLedger \o <<NullEntry>>)}

\* a full ledger the component wrote while the device clock was ahead: the
\* HistoryMax days that follow StartDay
LaterLedger == [i \in 1..HistoryMax |-> Record(dayKey(StartDay + i), Rested)]

InitLoad ==
  /\ clock = StartDay
  /\ \/ /\ lsState \in {AbsentState, FalsyState, TextState, ScalarState}
                       \cup StaleSnapshots \cup SameDaySnapshots
        /\ lsHistory \in StoredHistories
     \/ /\ lsState = AbsentState
        /\ lsHistory = StoredArray(LaterLedger)
  /\ Constructed

NextLoad == Mount

SpecLoad == InitLoad /\ [][NextLoad]_vars

(***************************************************************************)
(* Properties of the ledger and of the streak (SpecLedger, SpecMonth).     *)
(***************************************************************************)
\* the positions of the ledger h that hold a record of day key dk
Positions(h, dk) == {i \in 1..Len(h) : h[i].dayKey = dk}
KeysOf(h) == {h[i].dayKey : i \in 1..Len(h)}

\* C1: upserting a record whose dayKey is already in the ledger leaves
\* exactly one record for that dayKey, and that record is the upserted one,
\* field for field.
C1_UpsertReplaces ==
  (op.kind # "none" /\ op.hit) =>
    /\ Cardinality(Positions(history, op.rec.dayKey)) = 1
    /\ \A i \in Positions(history, op.rec.dayKey) : history[i] = op.rec

\* the k greatest of a set of day keys, by string comparison
Greatest(keys, k) ==
  {a \in keys : Cardinality({b \in keys : StrLess(a, b)}) < k}

\* C2: the ledger never holds more than 30 entries; an upsert keeps the 30
\* greatest dayKeys of the entries present before trimming; 31 upserts with
\* strictly increasing dayKeys leave 30 entries, the smallest being the
\* dayKey of the second upsert.
C2_BoundedMostRecent ==
  /\ [](Len(history) <= 30)
  /\ [][op' # op =>
          KeysOf(history') = Greatest(KeysOf(history) \cup {op'.rec.dayKey}, 30)]_vars
  /\ []((op.run.late = 0 /\ op.run.n = 31) =>
          /\ Len(history) = 30
          /\ history[1].dayKey = op.run.second
          /\ \A i \in 2..30 : StrLess(history[1].dayKey, history[i].dayKey))

\* C2 witness: 31 upserts of 31 successive days, and nothing else, were made.
C2_Witness ==
  /\ op.kind # "none"
  /\ op.run.late = 0 /\ op.run.n = 31
  /\ Len(history) = 30
  /\ op.run.second = dayKey(2)

\* the ledger h holds a record of day n with a tracked counter above zero
ActiveOn(h, n) ==
  \E i \in 1..Len(h) :
    /\ h[i].dayKey = dayKey(n)
    /\ \E f \in {"water", "eyeBreaks", "stretches"} : f \in DOMAIN h[i] /\ h[i][f] > 0

\* the largest k such that days D, D-1, .., D-k+1 are all active in h
LongestRun(h, D) ==
  CHOOSE k \in 0..(D + 1) :
    /\ \A i \in 0..(k - 1) : ActiveOn(h, D - i)
    /\ ~ActiveOn(h, D - k)

\* C3: computeStreak(ledger, D) is the largest k such that each of the k days
\* ending at D has a record with a tracked activity counter above zero
\* (workTime is not one of them); a record with no activity stops the walk
\* like a missing record.
C3_StreakIsLongestRun ==
  /\ \A D \in 0..LedgerDays : computeStreak(history, D) = LongestRun(history, D)
  /\ op.kind # "none" => streak = LongestRun(history, clock)

\* C3 witness: days D, D-1 and D-2 hold active records, D-3 none, and the
\* streak held after the upsert is 3; the three days are active through
\* different counters.
C3_Witness ==
  /\ op.kind # "none"
  /\ streak = 3
  /\ Len(history) = 3
  /\ ~MapHas(history, dayKey(clock - 3))
  /\ OrZero(history[1], "stretches") > 0
  /\ \E i \in 1..3 : OrZero(history[i], "water") = 0 /\ OrZero(history[i], "eyeBreaks") > 0

\* C4: when the ledger has no record for today, or today's record has every
\* tracked counter at zero, computeStreak returns 0 whatever the earlier
\* days hold.
C4_InactiveTodayIsZero ==
  /\ \A D \in 1..LedgerDays :
       (\A i \in Positions(history, dayKey(D)) :
          /\ OrZero(history[i], "water") = 0
          /\ OrZero(history[i], "eyeBreaks") = 0
          /\ OrZero(history[i], "stretches") = 0)
         => computeStreak(history, D) = 0
  /\ (op.kind # "none" /\ ~ActiveOn(history, clock)) => streak = 0

\* C4 witness: today's record exists with non-zero workTime and no activity,
\* yesterday's record is active, and the streak held is 0.
C4_Witness ==
  /\ op.kind # "none"
  /\ streak = 0
  /\ \E i \in Positions(history, dayKey(clock)) :
       OrZero(history[i], "workTime") > 0 /\ OrZero(history[i], "eyeBreaks") = 0
  /\ ActiveOn(history, clock - 1)

\* records the ledger harness upserts: of the first and of the last day,
\* with all counters and with counters missing
HarnessRecords ==
  {Record(dayKey(d), c) : d \in {1, LedgerDays}, c \in {Rested, Partial}}

\* retention depths tried with upsertTodayStats(todayStats, maxDays)
MaxDaysTried == {1, DefaultMaxDays}

\* C12: upserting the same record twice in a row yields the same ledger, same
\* records in the same order, as upserting it once, from every ledger; for
\* the upsert-today effect and for upsertTodayStats (at any retention depth).
C12_UpsertIdempotent ==
  \A r \in HarnessRecords :
    /\ LET once == upsertToday(history, r)
       IN upsertToday(once, r) = once
    /\ \A k \in MaxDaysTried :
         LET once == upsertTodayStats(lsHistory.items, r, k, clock)
         IN upsertTodayStats(once, r, k, clock) = once

\* C12 witness: the ledger holds three days, the last upsert hit a record
\* already present, and upserting a record of the middle day again replaces
\* a record that differs from it.
C12_Witness ==
  /\ op.kind # "none" /\ op.hit
  /\ Len(history) = 3
  /\ history[2] # Record(history[2].dayKey, Partial)
  /\ upsertToday(history, Record(history[2].dayKey, Partial)) # history

\* C13: in every ledger reached after an upsert, in memory and in storage,
\* the entries are in non-decreasing order of dayKey under string comparison.
C13_LedgerSorted ==
  op.kind # "none" =>
    /\ \A i, j \in 1..Len(history) :
         i < j => ~StrLess(history[j].dayKey, history[i].dayKey)
    /\ \A i, j \in 1..Len(lsHistory.items) :
         i < j => ~StrLess(lsHistory.items[j].dayKey, lsHistory.items[i].dayKey)

\* C13 witness: a late upsert of an older day was made into a full ledger
\* that spans the end of the year, and the day upserted late is in it.
C13_Witness ==
  /\ op.kind # "none"
  /\ op.run.late > 0
  /\ Len(history) = 30
  /\ op.rec.dayKey # history[Len(history)].dayKey
  /\ \E i \in 1..Len(history) : history[i] = op.rec
  /\ history[1].dayKey[4] # history[30].dayKey[4]

(***************************************************************************)
(* Properties of the timer / rollover state machine (Spec).                *)
(***************************************************************************)
\* the rollover poll detected a new calendar day in this step
RolloverDetected == lastDayRef' # lastDayRef
\* the one-second tick ran in this step
Ticked == nTicks' # nTicks
\* a step driven by time alone: a timer callback or the calendar
TimeDriven == Ticked \/ RolloverPoll \/ NotifTimeout \/ Midnight \/ ClockSetBack

NumberOf(seq, x) == Cardinality({i \in 1..Len(seq) : seq[i] = x})

C6_FinalizedRecordIsFrozen ==
  [][/\ \A i \in 1..Len(history) :
          history[i].dayKey # todayStats.dayKey =>
            \A j \in 1..Len(history') :
              history'[j].dayKey = history[i].dayKey => history'[j] = history[i]
     /\ RolloverDetected =>
          \E i \in 1..Len(history') : history'[i] = todayStats]_vars

\* C7: in a tick a countdown at 1 or below is set to its configured interval
\* and exactly one "break due" event of its module is raised; a countdown
\* above 1 loses exactly 1 and no event of its module is raised.
C7_TickCountdown ==
  [][Ticked =>
       /\ IF eyeBreakTimer <= 1
          THEN eyeBreakTimer' = eyeBreakInterval /\ NumberOf(events', "eye") = 1
          ELSE eyeBreakTimer' = eyeBreakTimer - 1 /\ NumberOf(events', "eye") = 0
       /\ IF stretchTimer <= 1
          THEN /\ stretchTimer' = stretchInterval
               /\ NumberOf(events', "stretch") = 1
          ELSE /\ stretchTimer' = stretchTimer - 1
               /\ NumberOf(events', "stretch") = 0]_vars

\* C7 witness: the scenario eyeBreakInterval = 1200, eyeBreakTimer = 1, one
\* tick: the countdown is back at 1200, one eye event was raised, and the
\* stretch countdown, above 1, raised none.
C7_Witness ==
  /\ nTicks > 0
  /\ events = <<"eye">>
  /\ eyeBreakInterval = 1200 /\ eyeBreakTimer = 1200
  /\ stretchTimer < stretchInterval

\* C8 (as claimed): while paused, no step driven by time alone changes a
\* countdown or workTime.
C8_PausedTimeChangesNothing ==
  [][(isPaused /\ TimeDriven) =>
       /\ eyeBreakTimer' = eyeBreakTimer
       /\ stretchTimer' = stretchTimer
       /\ todayStats'.workTime = todayStats.workTime]_vars

\* C8 (amended): ticks happen only while running; while paused, a step
\* driven by time alone changes neither countdown nor workTime unless it is
\* the rollover poll detecting a new calendar day; and from a pause until
\* the first tick after it, unless such a rollover or an interval change
\* comes in between, both countdowns and workTime stay what they were when
\* the pause began.
C8_PausedFrozenUntilRollover ==
  /\ [][Ticked => ~isPaused]_vars
  /\ [][(isPaused /\ TimeDriven /\ ~RolloverDetected) =>
          /\ eyeBreakTimer' = eyeBreakTimer
          /\ stretchTimer' = stretchTimer
          /\ todayStats'.workTime = todayStats.workTime]_vars
  /\ [](pausedAt # <<>> =>
          /\ eyeBreakTimer = pausedAt[1]
          /\ stretchTimer = pausedAt[2]
          /\ todayStats.workTime = pausedAt[3])

\* C8 witness: a session was paused after some ticks, local midnight passed
\* during the pause, and the user has resumed: countdowns and workTime are
\* those of the moment of the pause.
C8_Witness ==
  /\ ~isPaused
  /\ pausedAt # <<>>
  /\ pausedAt[4] = 1
  /\ nTicks > 0
  /\ todayStats.workTime = pausedAt[3] /\ todayStats.workTime > 0
  /\ eyeBreakTimer = pausedAt[1]

\* C14: once the component is mounted, the RUNNING / PAUSED state changes
\* only in a step of the user's pause / resume action: no tick, upsert,
\* notification or rollover check changes it, so a session paused before
\* midnight is still paused after the rollover check has run.
C14_PauseOnlyByUser ==
  [][(phase = "mounted" /\ isPaused' # isPaused) => TogglePause]_vars

\* the part of the state a tick touches, before the tick
BeforeTick == TickState

SetOf(seq) == {seq[i] : i \in 1..Len(seq)}

\* C17: the eye-countdown update, the stretch-countdown update and the
\* workTime increment of one tick commute: applied in any order they give
\* the state the tick gives and the same set of "break due" events, also
\* when both countdowns reach zero in the same tick.
C17_TickUpdatesCommute ==
  [][Ticked =>
       \A order \in TickOrders :
         LET r == TickIn(order, BeforeTick, eyeBreakInterval, stretchInterval)
         IN /\ r.eyeT = eyeBreakTimer'
            /\ r.strT = stretchTimer'
            /\ r.workTime = todayStats'.workTime
            /\ r.showNotif = showNotif'
            /\ SetOf(r.events) = SetOf(events')]_vars

\* the runner is on the last second of the last step of a session of type
LastSecond(type) ==
  /\ activeExercise.type = type
  /\ activeExercise.index + 1 = Len(Durations(type))
  /\ activeExercise.remaining <= 1

\* C15: the eyeBreaks (stretches) counter gains exactly 1 in a step that
\* completes an eye (stretch) session, the runner counting its last step
\* down to the end or the user confirming the reminder as done, and 0 in any
\* other step: a stop, a skip, also past the last step; a rollover clears
\* the running session and leaves the new day's counters at 0.
C15_OneCreditPerCompletedSession ==
  [][phase = "mounted" =>
       IF RolloverDetected
       THEN todayStats'.eyeBreaks = 0 /\ todayStats'.stretches = 0
       ELSE /\ todayStats'.eyeBreaks = todayStats.eyeBreaks +
                 (IF (RunnerTick /\ LastSecond("eye")) \/ completeEyeBreak
                  THEN 1 ELSE 0)
            /\ todayStats'.stretches = todayStats.stretches +
                 (IF (RunnerTick /\ LastSecond("stretch")) \/ completeStretch
                  THEN 1 ELSE 0)]_vars

(***************************************************************************)
(* Properties of the load (SpecLoad).                                      *)
(***************************************************************************)
\* the snapshot loaded is of the current day
LoadedSameDay == lsState.kind = "object" /\ SameDay(lsState.obj, dayKey(clock))

\* C9: after a load in which the snapshot's dayKey differs from the current
\* dayKey, or no todayStats snapshot is present, todayStats is the all-zero
\* record of the current dayKey and each countdown equals the interval as
\* restored, whatever was persisted.
C9_StaleLoadStartsFromIntervals ==
  (phase = "mounted" /\ ~LoadedSameDay) =>
    /\ todayStats = ZeroStats(dayKey(clock))
    /\ waterCount = 0
    /\ eyeBreakTimer = eyeBreakInterval
    /\ stretchTimer = stretchInterval

\* a stored value that is a number inside lo..hi
InDomain(x, lo, hi) == x.t = "number" /\ x.v >= lo /\ x.v <= hi

\* C10: after a load every numeric field is inside its domain (goal 6..12,
\* eye interval 600..7200, stretch interval 900..10800, counters 0..500,
\* workTime 0..86400, countdowns at least 1), whatever was persisted; and a
\* same-day stored value already inside its domain is restored unchanged.
C10_LoadClampsIntoDomains ==
  phase = "mounted" =>
    /\ waterGoal \in 6..12
    /\ eyeBreakInterval \in 600..7200
    /\ stretchInterval \in 900..10800
    /\ waterCount \in 0..500
    /\ todayStats.water \in 0..500
    /\ todayStats.eyeBreaks \in 0..500
    /\ todayStats.stretches \in 0..500
    /\ todayStats.workTime \in 0..86400
    /\ eyeBreakTimer >= 1
    /\ stretchTimer >= 1
    /\ LoadedSameDay =>
         LET s == lsState.obj
         IN /\ InDomain(s.ts.water, 0, 500) => todayStats.water = s.ts.water.v
            /\ InDomain(s.ts.eyeBreaks, 0, 500) => todayStats.eyeBreaks = s.ts.eyeBreaks.v
            /\ InDomain(s.ts.stretches, 0, 500) => todayStats.stretches = s.ts.stretches.v
            /\ InDomain(s.ts.workTime, 0, 86400) => todayStats.workTime = s.ts.workTime.v
            /\ InDomain(s.eyeBreakTimer, 1, 7200) => eyeBreakTimer = s.eyeBreakTimer.v
            /\ InDomain(s.stretchTimer, 1, 10800) => stretchTimer = s.stretchTimer.v
            /\ InDomain(s.waterCount, 0, 200) => waterCount = s.waterCount.v

\* C11: whatever the "state" and "history" items hold (nothing, text that is
\* not JSON, JSON of the wrong shape, an array with elements that are not
\* records), the load, the first upsert and the streak complete without
\* raising, and content that cannot be used behaves as if it were absent:
\* the ledger is the one obtained from an empty ledger, the settings and
\* counters are the constructor's.
C11_LoadToleratesAnyContent ==
  [][Mount =>
       /\ phase' = "mounted"
       /\ lsHistory.kind # "array" =>
            /\ history' = upsertToday(<<>>, todayStats')
            /\ streak' = computeStreak(history', clock)
       /\ ~StateLoaded(lsState) =>
            /\ UNCHANGED <<settingsVars, timerVars, waterCount, isPaused>>
            /\ todayStats' = ZeroStats(dayKey(clock))]_vars

(***************************************************************************)
(* Properties of the debounced save and of the dismount (SpecSave).        *)
(***************************************************************************)
\* a payload or commit p (countdowns eyeT, strT and work time w) shows none
\* of the updates of the tick being taken, or all three
NoneOrAll(eyeT, strT, w) ==
  \/ /\ eyeT = eyeBreakTimer
     /\ strT = stretchTimer
     /\ w = todayStats.workTime
  \/ /\ eyeT = TimerStep(eyeBreakTimer, eyeBreakInterval)
     /\ strT = TimerStep(stretchTimer, stretchInterval)
     /\ w = todayStats.workTime + 1

\* C18: a tick is one atomic transition for its observers.  Every state
\* committed for a tick, every payload the save effect holds after it and
\* the record the upsert stored show either none or all three of the
\* tick's updates: both countdowns stepped and workTime greater by 1.
C18_TickIsAtomic ==
  [][Ticked =>
       /\ \A c \in SetOf(TickCommits(BeforeTick, eyeBreakInterval,
                                      stretchInterval)) :
            NoneOrAll(c.eyeT, c.strT, c.workTime)
       /\ \A t \in SetOf(saveTimers') :
            NoneOrAll(t.payload.eyeBreakTimer, t.payload.stretchTimer,
                      t.payload.todayStats.workTime)
       /\ MapGet(history', todayStats.dayKey).workTime
            = todayStats.workTime + 1
       /\ lsHistory' = StoredArray(history')]_vars

\* a tick was taken and the debounced save wrote the state it left
C18_Witness ==
  /\ phase = "mounted"
  /\ nTicks >= 1
  /\ todayStats.workTime >= 1
  /\ saveTimers = <<>>
  /\ lsState = StoredPayload(Payload)

\* a step that changes the state the save persists
Mutation == Payload' # Payload

\* C19: at most one state write is pending at any time; every mutation
\* cancels the pending write and schedules a new one; the write that fires
\* carries the state as of the latest mutation; and if mutations stop while
\* the component stays mounted, that state is eventually written and no
\* write is left pending.
C19_SingleDebouncedWrite ==
  /\ [](Len(saveTimers) <= 1)
  /\ [][(phase' = "mounted" /\ Mutation) =>
          saveTimers' = <<[payload |-> Payload', current |-> TRUE]>>]_vars
  /\ [][SaveFires =>
          /\ lsState' = StoredPayload(Payload)
          /\ saveTimers' = <<>>]_vars
  /\ (<>[](phase = "mounted") /\ <>[][~Mutation]_vars)
       => <>[](saveTimers = <<>> /\ lsState = StoredPayload(Payload))

\* a write was pending, a mutation replaced it, and the state was written
C19_Witness ==
  /\ phase = "mounted"
  /\ nTicks >= 2
  /\ saveTimers = <<>>
  /\ lsState = StoredPayload(Payload)
  /\ lsState.obj.ts.workTime = Num(todayStats.workTime)

\* C20: once the component is dismounted no timer it created fires: not the
\* one-second tick, the rollover poll, the pending save, the session runner
\* or the auto-dismiss timeout of a reminder.
C20_NoTimerAfterUnmount ==
  [][phase = "unmounted" =>
       ~(Tick \/ RolloverPoll \/ SaveFires \/ RunnerTick \/ NotifTimeout)]_vars

(***************************************************************************)
(* Properties of the async upserts (SpecAsync).                            *)
(***************************************************************************)
\* the last upsert issued for the dayKey dk
LastIssued(dk) ==
  tasks[CHOOSE i \in 1..Len(tasks) :
          /\ tasks[i].rec.dayKey = dk
          /\ \A j \in 1..Len(tasks) : tasks[j].rec.dayKey = dk => j <= i].rec

\* C16: upserts are atomic with respect to each other.  Once every upsert
\* issued has completed, whatever the interleaving of their storage reads
\* and writes, the ledger in memory and the ledger in storage hold, for
\* every day upserted, the values of the last upsert issued for that day:
\* a later upsert of the same day wins and no other day's update is lost.
C16_UpsertsAreAtomic ==
  (tasks # <<>> /\ \A i \in 1..Len(tasks) : tasks[i].pc = "done") =>
    \A i \in 1..Len(tasks) :
      LET dk == tasks[i].rec.dayKey IN
        /\ MapHas(history, dk)
        /\ MapGet(history, dk) = LastIssued(dk)
        /\ MapHas(lsHistory.items, dk)
        /\ MapGet(lsHistory.items, dk) = LastIssued(dk)

(***************************************************************************)
(* Properties of the ledger as the component keeps it.                     *)
(***************************************************************************)
\* the ledger h holds a record of todayStats.dayKey equal to todayStats
HoldsToday(h) ==
  /\ MapHas(h, todayStats.dayKey)
  /\ MapGet(h, todayStats.dayKey) = todayStats

C22_StreakFollowsLedger ==
  [][history' # history => streak' = computeStreak(history', clock')]_vars

\* a mutation of a ledger of two days changed the streak to 2
C22_Witness ==
  /\ phase = "mounted"
  /\ Len(history) = 2
  /\ streak = 2
  /\ computeStreak(SubSeq(history, 1, 1), clock) # streak

\* the days a streak is asked for: from before the first record to after
\* the last
StreakDays == 0..(LastDay + 1)

\* C23: computeStreak terminates for every ledger and every day (its loop
\* reaches its break within one iteration more than the ledger has
\* records), and its result is between 0 and the number of records, hence
\* at most 30 for a ledger produced by upsert.
C23_StreakTerminatesBounded ==
  /\ Len(history) <= HistoryMax
  /\ streak <= HistoryMax
  /\ \A d \in StreakDays :
       LET loop == StreakLoop(history, d, 0, Len(history) + 1) IN
         /\ loop.exited
         /\ computeStreak(history, d) = loop.streak
         /\ computeStreak(history, d) >= 0
         /\ computeStreak(history, d) <= Len(history)

\* the ledger is full and the streak spans all of it
C23_Witness ==
  /\ Len(history) = HistoryMax
  /\ streak = HistoryMax
  /\ computeStreak(history, clock - 1) = HistoryMax - 1

(***************************************************************************)
(* Properties of the countdowns and of the hydration counter.              *)
(***************************************************************************)
\* each countdown is between 1 and its interval
CountdownsWithinIntervals ==
  /\ 1 <= eyeBreakTimer /\ eyeBreakTimer <= eyeBreakInterval
  /\ 1 <= stretchTimer /\ stretchTimer <= stretchInterval

\* C24: in every state of the mounted component, right after the load and
\* right after a settings change included, each countdown is at least 1 and
\* at most its configured interval; and changing an interval to v sets its
\* countdown to min(countdown, v).
C24_CountdownsWithinIntervals ==
  /\ [](phase = "mounted" => CountdownsWithinIntervals)
  /\ [][(phase = "mounted" /\ eyeBreakInterval' # eyeBreakInterval
           /\ ~RolloverDetected /\ ~Ticked)
          => eyeBreakTimer' = Min(eyeBreakTimer, eyeBreakInterval')]_vars
  /\ [][(phase = "mounted" /\ stretchInterval' # stretchInterval
           /\ ~RolloverDetected /\ ~Ticked)
          => stretchTimer' = Min(stretchTimer, stretchInterval')]_vars

\* the record of the current day in the ledger h, or the all-zero record
TodayIn(h) ==
  IF MapHas(h, dayKey(clock)) THEN MapGet(h, dayKey(clock))
  ELSE ZeroStats(dayKey(clock))

\* C25: when the process is restarted on the same calendar day, then once
\* the load has settled each activity counter of today's record in the
\* ledger is at least what it was in the stored ledger before the restart,
\* whatever the stored snapshot holds.
C25_RestartKeepsTodaysActivity ==
  [][(Mount /\ phase' = "mounted") =>
       LET before == TodayIn(LoadedHistory(lsHistory))
           after == TodayIn(LoadedHistory(lsHistory'))
       IN /\ after.water >= before.water
          /\ after.eyeBreaks >= before.eyeBreaks
          /\ after.stretches >= before.stretches
          /\ after.workTime >= before.workTime]_vars


\* the sum of the four activity counters of a record
Total(r) == r.water + r.eyeBreaks + r.stretches + r.workTime

\* a step that makes one activity increment: a glass of water, a completed
\* break, or one second of work time
Credited == Tick \/ addWater \/ completeEyeBreak \/ completeStretch

\* C26: every activity increment is credited to the ledger's record of the
\* calendar day on which it is made, and a rollover never lowers the
\* counters the ledger holds for the calendar day it rolls to.
C26_CreditedToItsDay ==
  [][/\ Credited => Total(TodayIn(history')) = Total(TodayIn(history)) + 1
     /\ RolloverDetected => Total(TodayIn(history')) >= Total(TodayIn(history))]_vars


\* C27: in every settled state (the component is mounted and its effects
\* have run) the live hydration counter equals the hydration field of
\* todayStats.
C27_CounterMatchesToday ==
  phase = "mounted" => waterCount = todayStats.water


\* C28: in every reachable state the live hydration counter does not exceed
\* the configured goal.
C28_CounterWithinGoal ==
  waterCount <= waterGoal


\* the banner visible before the step is gone or replaced after it
BannerGone == showNotif # None /\ showNotif' # showNotif

\* the auto-dismiss timeout that fires is the one of the reminder on screen:
\* the banner belongs to the reminder raised last, and the timeout that
\* fires was created at the same instant
OwnTimeout == NotifTimeout /\ Head(dismissTimers) = dismissTimers[Len(dismissTimers)]

\* C29: a visible banner goes away only when the user closes or confirms it,
\* a rollover clears it, another reminder replaces it, or six seconds have
\* passed since it was raised; never by the timeout of an earlier reminder.
C29_BannerOutlivesOldTimeouts ==
  [][BannerGone =>
       \/ CloseNotif \/ completeEyeBreak \/ completeStretch
       \/ RolloverDetected
       \/ (Ticked /\ showNotif' # None)
       \/ OwnTimeout]_vars


\* every scheduleNextReminders call issued has returned
AllCallsDone == calls # <<>> /\ \A i \in 1..Len(calls) : calls[i].pc = "done"

\* C30: once all calls have finished the pending notifications are those of
\* the call issued last: none of the two ids when it had enabled = false,
\* and exactly the two reminders, each at least 5 seconds ahead and at the
\* delay it asked for, when it had enabled = true.
C30_ScheduledReflectsLatest ==
  AllCallsDone =>
    LET last == calls[Len(calls)]
    IN IF last.enabled
       THEN /\ scheduled = {[id |-> EyeReminder,
                             ahead |-> AheadSeconds(last.eyeSeconds)],
                            [id |-> StretchReminder,
                             ahead |-> AheadSeconds(last.stretchSeconds)]}
            /\ \A n \in scheduled : n.ahead >= 5
       ELSE scheduled = {}

====
